---- MODULE Spec2Model ----
(***************************************************************************)
(* Model of the children's-book generator (app.py) and of the reader       *)
(* utility (read_book.py).                                                 *)
(*                                                                         *)
(* A Python string is a sequence of tokens.  The tokens ":", ".", " " and  *)
(* "\n" are the single characters the code tests for; "Page" is the        *)
(* literal the parser looks for; every other token is an opaque word that  *)
(* contains none of those characters.                                      *)
(***************************************************************************)
EXTENDS Integers, Sequences, FiniteSets, TLC

VARIABLES
    pc,               \* position of generate_childrens_book / of the parser
    prompt,           \* argument of generate_childrens_book
    story_response,   \* outcome of the text-generation request
    script,           \* what generate_story_script did (pages, path taken)
    pages,            \* local `pages`
    i,                \* loop index of the image loop
    storyboard,       \* local `storyboard`
    images,           \* local `images`
    reference_image,  \* local `reference_image`
    result,           \* returned gallery value and status message
    calls,            \* per-run log of the calls made by the handler
    fs,               \* folders on disk
    clock,            \* datetime.now(), in seconds
    reader            \* last run of read_book.py

vars == <<pc, prompt, story_response, script, pages, i, storyboard,
          images, reference_image, result, calls, fs, clock, reader>>

----------------------------------------------------------------------------
(* Bounds *)

MaxLines == 12      \* lines in a model response
MaxOdd == 2         \* irregular lines in a model response
MaxClock == 2       \* seconds on the clock
MaxImageFailures == 2   \* failed image requests in one run

(* Program constants *)

NumPages == 10          \* pages[:10], [...] * 10, split('.')[:10]
PlaceholderSize == 512  \* Image.new('RGB', (512, 512), ...)

----------------------------------------------------------------------------
(* Python str and list primitives *)

Min(a, b) == IF a < b THEN a ELSE b

\* s[:n]
Take(s, n) == SubSeq(s, 1, Min(n, Len(s)))

\* str.isspace() of one character
IsSpace(c) == c \in {" ", "\n"}

RECURSIVE LStrip(_)
LStrip(s) == IF s # <<>> /\ IsSpace(Head(s)) THEN LStrip(Tail(s)) ELSE s

RECURSIVE RStrip(_)
RStrip(s) ==
    IF s # <<>> /\ IsSpace(s[Len(s)]) THEN RStrip(SubSeq(s, 1, Len(s) - 1))
    ELSE s

\* str.strip()
Strip(s) == RStrip(LStrip(s))

\* sep in s
Contains(s, sep) == \E k \in 1..Len(s) : s[k] = sep

\* s.find(sep) + 1; 0 when absent
Find(s, sep) ==
    IF Contains(s, sep)
    THEN CHOOSE k \in 1..Len(s) : s[k] = sep /\ \A j \in 1..(k - 1) : s[j] # sep
    ELSE 0

\* s.split(sep)
RECURSIVE Split(_, _)
Split(s, sep) ==
    LET k == Find(s, sep) IN
    IF k = 0 THEN <<s>>
    ELSE <<SubSeq(s, 1, k - 1)>> \o Split(SubSeq(s, k + 1, Len(s)), sep)

\* s.split(sep, 1)
SplitOnce(s, sep) ==
    LET k == Find(s, sep) IN
    IF k = 0 THEN <<s>>
    ELSE <<SubSeq(s, 1, k - 1), SubSeq(s, k + 1, Len(s))>>

\* line.startswith('Page')
StartsWithPage(line) == line # <<>> /\ Head(line) = "Page"

----------------------------------------------------------------------------
(* generate_story_script *)

\* line.split(':', 1)[1].strip()
PageTextMiddle(line) == Strip(Split(line, ":")[2])
PageText(line) == Strip(SplitOnce(line, ":")[2])

\* the loop over the lines of the response
RECURSIVE ParsePages(_)
ParsePages(lines) ==
    IF lines = <<>> THEN <<>>
    ELSE LET line == Strip(Head(lines)) IN
         IF StartsWithPage(line) /\ Contains(line, ":")
         THEN <<PageText(line)>> \o ParsePages(Tail(lines))
         ELSE ParsePages(Tail(lines))

\* [p.strip() + '.' for p in pages if p.strip()]
RECURSIVE Sentences(_)
Sentences(frags) ==
    IF frags = <<>> THEN <<>>
    ELSE IF Strip(Head(frags)) # <<>>
         THEN <<Append(Strip(Head(frags)), ".")>> \o Sentences(Tail(frags))
         ELSE Sentences(Tail(frags))

\* pages = story_text.split('.')[:10], then the comprehension
FallbackPages(story_text) == Sentences(Take(Split(story_text, "."), NumPages))

\* len(pages) < 10
NeedsFallback(parsed) == Len(parsed) < NumPages

\* [f"Error generating story: {str(e)}"] * 10
ErrorPages(e) == [k \in 1..NumPages |-> <<"Error generating story: ", e>>]

\* The whole function.  resp.kind is "raise" (the request raised resp.error),
\* "none" (message.content is None, so .strip() raises AttributeError) or
\* "text" (resp.content is the story text).
generate_story_script(resp) ==
    IF resp.kind = "raise"
    THEN [pages |-> ErrorPages(resp.error), path |-> "error"]
    ELSE IF resp.kind = "none"
    THEN [pages |-> ErrorPages("'NoneType' object has no attribute 'strip'"),
          path |-> "error"]
    ELSE LET story_text == resp.content
             parsed == ParsePages(Split(Strip(story_text), "\n"))
         IN  IF NeedsFallback(parsed)
             THEN [pages |-> Take(FallbackPages(story_text), NumPages),
                   path |-> "fallback"]
             ELSE [pages |-> Take(parsed, NumPages), path |-> "lines"]

----------------------------------------------------------------------------
(* The responses the text-generation request can produce *)

Word(k) == "w" \o ToString(k)

BaseKinds == {"page", "sentence"}
OddKinds == {"indented", "nocolon", "colons", "empty", "ellipsis", "title",
             "misnumbered"}

\* line k of a response
Line(kind, k) ==
    CASE kind = "page"        -> <<"Page", " ", ToString(k), ":", " ", Word(k), ".">>
      [] kind = "sentence"    -> <<Word(k), ".">>
      [] kind = "indented"    -> <<" ", "Page", " ", ToString(k), ":", Word(k), ".", " ">>
      [] kind = "nocolon"     -> <<"Page", " ", ToString(k), " ", Word(k), ".">>
      [] kind = "colons"      -> <<"Page", " ", ToString(k), ":", " ", Word(k), ":", " ", "said", ".">>
      [] kind = "empty"       -> <<>>
      [] kind = "ellipsis"    -> <<Word(k), ".", ".", ".", " ", "then", ".">>
      [] kind = "title"       -> <<"Title", ":", " ", Word(k)>>
      [] kind = "misnumbered" -> <<"Page", " ", "99", ":", " ", Word(k), ".">>

RECURSIVE JoinLines(_)
JoinLines(lines) ==
    IF lines = <<>> THEN <<>>
    ELSE IF Len(lines) = 1 THEN Head(lines)
    ELSE Head(lines) \o <<"\n">> \o JoinLines(Tail(lines))

\* n lines of kind base, those at the positions in odd replaced by kind oddKind;
\* padded responses carry surrounding blank space
StoryText(n, base, oddKind, odd, padded) ==
    LET body == JoinLines([k \in 1..n |->
                    IF k \in odd THEN Line(oddKind, k) ELSE Line(base, k)])
    IN  IF padded THEN <<"\n">> \o body \o <<"\n", " ">> ELSE body

TextResponse(t) == [kind |-> "text", content |-> t, error |-> ""]
RaiseResponse == [kind |-> "raise", content |-> <<>>, error |-> "Connection error."]
NoneResponse == [kind |-> "none", content |-> <<>>, error |-> ""]

StoryTexts ==
    UNION { UNION { { StoryText(n, base, oddKind, odd, padded) :
                        base \in BaseKinds, oddKind \in OddKinds,
                        padded \in BOOLEAN }
                    : odd \in {o \in SUBSET (1..n) : Cardinality(o) <= MaxOdd} }
            : n \in 0..MaxLines }

StoryResponses == {TextResponse(t) : t \in StoryTexts} \cup {RaiseResponse, NoneResponse}

WellFormedText == StoryText(NumPages, "page", "empty", {}, FALSE)

----------------------------------------------------------------------------
(* Values of the orchestrator's locals before it is entered *)

NoImage == [kind |-> "None", page |-> 0, w |-> 0, h |-> 0]
NoScript == [pages |-> <<>>, path |-> "none"]
NoResult == [returned |-> FALSE, gallery |-> <<>>, none |-> TRUE, status |-> "", warning |-> ""]
NoCalls == [script |-> 0, image |-> 0, save |-> 0, refs |-> <<>>, ref_writes |-> 0,
            save_pages |-> <<>>, save_images |-> <<>>, save_raised |-> FALSE,
            save_path |-> "", makedirs |-> 0, image_failures |-> 0]
NoReader == [ran |-> FALSE, argv |-> "", exit_code |-> 0, error |-> "",
             loaded |-> FALSE, prompt |-> <<>>, sections |-> <<>>]
CwdOnly == ("." :> [files |-> {}, manifest |-> [state |-> "absent", prompt |-> <<>>, pages |-> <<>>]])

----------------------------------------------------------------------------
(* The story generator on its own: one request, one parse *)

InitParse ==
    /\ pc = "call"
    /\ prompt = <<"mouse">>
    /\ story_response \in StoryResponses
    /\ script = NoScript
    /\ pages = <<>>
    /\ i = 0
    /\ storyboard = <<>>
    /\ images = <<>>
    /\ reference_image = NoImage
    /\ result = NoResult
    /\ calls = NoCalls
    /\ fs = CwdOnly
    /\ clock = 1
    /\ reader = NoReader

CallStoryScript ==
    /\ pc = "call"
    /\ script' = generate_story_script(story_response)
    /\ pc' = "returned"
    /\ UNCHANGED <<prompt, story_response, pages, i, storyboard, images,
                   reference_image, result, calls, fs, clock, reader>>

NextParse == CallStoryScript

SpecParse == InitParse /\ [][NextParse]_vars

----------------------------------------------------------------------------
(* generate_image *)

ImageOutcomes == {"data_url", "remote_url", "api_error", "no_images",
                  "bad_base64", "download_error"}
FailedOutcomes == ImageOutcomes \ {"data_url", "remote_url"}

\* the image decoded from the response for this page
Generated(page_number) == [kind |-> "generated", page |-> page_number, w |-> 1024, h |-> 1024]

\* Image.new('RGB', (512, 512), color='lightgray') with the error drawn on it
Placeholder(page_number) ==
    [kind |-> "placeholder", page |-> page_number,
     w |-> PlaceholderSize, h |-> PlaceholderSize]

\* the body of the try block: the image it returns, or the exception it raises
TryGenerate(page_number, outcome) ==
    CASE outcome = "api_error"      -> [raised |-> TRUE, image |-> NoImage]
      [] outcome = "no_images"      -> [raised |-> TRUE, image |-> NoImage]
      [] outcome = "bad_base64"     -> [raised |-> TRUE, image |-> NoImage]
      [] outcome = "download_error" -> [raised |-> TRUE, image |-> NoImage]
      [] outcome = "data_url"       -> [raised |-> FALSE, image |-> Generated(page_number)]
      [] outcome = "remote_url"     -> [raised |-> FALSE, image |-> Generated(page_number)]

\* the function with its except clause
generate_image_narrow(page_text, page_number, overall_prompt, reference, outcome) ==
    LET try == TryGenerate(page_number, outcome) IN
    IF try.raised /\ outcome = "api_error"
    THEN [raised |-> FALSE, image |-> Placeholder(page_number)]
    ELSE try
generate_image(page_text, page_number, overall_prompt, reference, outcome) ==
    LET try == TryGenerate(page_number, outcome) IN
    IF try.raised
    THEN [raised |-> FALSE, image |-> Placeholder(page_number)]
    ELSE try

----------------------------------------------------------------------------
(* save_book_to_folder *)

\* f"{i:02d}"
TwoDigits(k) == IF k < 10 THEN "0" \o ToString(k) ELSE ToString(k)
\* f"page_{i:02d}.png"
ImageFilename(k) == "page_" \o TwoDigits(k) \o ".png"
\* os.path.join("generated_books", f"book_{timestamp}")
FolderPath(now) == "generated_books/book_" \o ToString(now)

\* json.dump and json.load of a string: a line feed is written as \n
JsonDump(str) == [k \in 1..Len(str) |-> IF str[k] = "\n" THEN "\\n" ELSE str[k]]
JsonLoad(str) == [k \in 1..Len(str) |-> IF str[k] = "\\n" THEN "\n" ELSE str[k]]

NoManifest == [state |-> "absent", prompt |-> <<>>, pages |-> <<>>]
EmptyFolder == [files |-> {}, manifest |-> NoManifest]

\* where the function can raise: nowhere, in os.makedirs, in the k-th
\* img.save, or in json.dump after the manifest file was opened for writing
FailPoints(n) ==
    {[at |-> "none", k |-> 0], [at |-> "makedirs", k |-> 0], [at |-> "json", k |-> 0]}
    \cup {[at |-> "image", k |-> k] : k \in 1..n}

save_book_to_folder(prompt_, pages_, images_, disk, now, fail) ==
    LET folder_path == FolderPath(now)
        before == IF folder_path \in DOMAIN disk THEN disk[folder_path] ELSE EmptyFolder
        n == Min(Len(pages_), Len(images_))
        saved == IF fail.at = "image" THEN fail.k - 1 ELSE n
        book_data == [state |-> "ok",
                      prompt |-> JsonDump(prompt_),
                      pages |-> [k \in 1..n |->
                                    [page_number |-> k,
                                     text |-> JsonDump(pages_[k]),
                                     image_file |-> ImageFilename(k)]]]
        after == [files |-> before.files \cup {ImageFilename(k) : k \in 1..saved},
                  manifest |-> CASE fail.at = "image" -> before.manifest
                                 [] fail.at = "json"  -> [NoManifest EXCEPT !.state = "partial"]
                                 [] OTHER             -> book_data]
    IN  IF fail.at = "makedirs"
        THEN [raised |-> TRUE, path |-> "", disk |-> disk]
        ELSE [raised |-> fail.at # "none",
              path |-> IF fail.at = "none" THEN folder_path ELSE "",
              disk |-> (folder_path :> after) @@ disk]

----------------------------------------------------------------------------
(* generate_childrens_book *)

Prompts == {<<>>, <<" ", "\n">>, <<"a", " ", "mouse">>}

PipelineResponses ==
    {TextResponse(StoryText(0, "sentence", "empty", {}, FALSE)),
     TextResponse(StoryText(2, "sentence", "empty", {}, FALSE)),
     TextResponse(WellFormedText),
     RaiseResponse}

\* not prompt or not prompt.strip()
PromptRejectedUnstripped(p) == p = <<>>
PromptRejected(p) == p = <<>> \/ Strip(p) = <<>>

\* if i == 0: reference_image = image
StoresReferenceAlways(index) == index >= 0
StoresReference(index) == index = 0

\* the disk after an earlier invocation saved a ten-page book at second 1
EarlierBook ==
    save_book_to_folder(<<"a", " ", "cat">>,
                        generate_story_script(TextResponse(WellFormedText)).pages,
                        [k \in 1..NumPages |-> Generated(k)],
                        CwdOnly, 1, [at |-> "none", k |-> 0]).disk

\* One invocation of the handler.  Its locals are fresh in every invocation;
\* invocations share only the disk, which may hold an earlier book.
Init ==
    /\ pc = "Idle"
    /\ prompt = <<>>
    /\ story_response = NoneResponse
    /\ script = NoScript
    /\ pages = <<>>
    /\ i = 0
    /\ storyboard = <<>>
    /\ images = <<>>
    /\ reference_image = NoImage
    /\ result = NoResult
    /\ calls = NoCalls
    /\ fs \in {CwdOnly, EarlierBook}
    /\ clock = 1
    /\ reader = NoReader

\* generate_btn.click: the handler is entered with the text of the prompt box
Click ==
    /\ pc = "Idle"
    /\ \E p \in Prompts : prompt' = p
    /\ pc' = "ValidatingPrompt"
    /\ story_response' = NoneResponse
    /\ script' = NoScript
    /\ pages' = <<>>
    /\ i' = 0
    /\ storyboard' = <<>>
    /\ images' = <<>>
    /\ reference_image' = NoImage
    /\ result' = NoResult
    /\ calls' = NoCalls
    /\ UNCHANGED <<fs, clock, reader>>

ValidatePrompt ==
    /\ pc = "ValidatingPrompt"
    /\ IF PromptRejected(prompt)
       THEN /\ result' = [NoResult EXCEPT !.returned = TRUE,
                                          !.status = "Please enter a story prompt!"]
            /\ pc' = "Done"
       ELSE /\ pc' = "GeneratingScript"
            /\ UNCHANGED result
    /\ UNCHANGED <<prompt, story_response, script, pages, i, storyboard,
                   images, reference_image, calls, fs, clock, reader>>

GenerateScript ==
    /\ pc = "GeneratingScript"
    /\ \E resp \in PipelineResponses :
         /\ story_response' = resp
         /\ script' = generate_story_script(resp)
    /\ pages' = script'.pages
    /\ calls' = [calls EXCEPT !.script = @ + 1]
    /\ IF pages' = <<>>
       THEN /\ result' = [NoResult EXCEPT
                            !.returned = TRUE,
                            !.status = "Failed to generate story script. Please try again."]
            /\ pc' = "Done"
       ELSE /\ pc' = "GeneratingImages"
            /\ UNCHANGED result
    /\ storyboard' = <<>>
    /\ images' = <<>>
    /\ reference_image' = NoImage
    /\ i' = 0
    /\ UNCHANGED <<prompt, fs, clock, reader>>

\* one iteration of the loop over enumerate(pages)
GenerateImage ==
    /\ pc = "GeneratingImages"
    /\ i < Len(pages)
    /\ \E outcome \in ImageOutcomes :
         /\ outcome \in FailedOutcomes => calls.image_failures < MaxImageFailures
         /\ LET page_text == pages[i + 1]
                call == generate_image(page_text, i + 1, prompt, reference_image, outcome)
            IN  IF call.raised
                THEN /\ pc' = "Raised"
                     /\ calls' = [calls EXCEPT !.image = @ + 1,
                                               !.refs = Append(@, reference_image)]
                     /\ UNCHANGED <<storyboard, images, reference_image, i>>
                ELSE /\ storyboard' = Append(storyboard, <<call.image, page_text>>)
                     /\ images' = Append(images, call.image)
                     /\ reference_image' = IF StoresReference(i) THEN call.image
                                           ELSE reference_image
                     /\ calls' = [calls EXCEPT
                            !.image = @ + 1,
                            !.refs = Append(@, reference_image),
                            !.ref_writes = IF StoresReference(i) THEN @ + 1 ELSE @,
                            !.image_failures = IF outcome \in FailedOutcomes THEN @ + 1 ELSE @]
                     /\ i' = i + 1
                     /\ pc' = IF i + 1 < Len(pages) THEN "GeneratingImages" ELSE "Persisting"
    /\ UNCHANGED <<prompt, story_response, script, pages, result, fs,
                   clock, reader>>

\* the try block around save_book_to_folder, and the return
PersistBook ==
    /\ pc = "Persisting"
    /\ \E now \in clock..MaxClock, fail \in FailPoints(Min(Len(pages), Len(images))) :
         LET save == save_book_to_folder(prompt, pages, images, fs, now, fail) IN
         /\ clock' = now
         /\ fs' = save.disk
         /\ calls' = [calls EXCEPT !.save = @ + 1,
                                   !.save_pages = pages,
                                   !.save_images = images,
                                   !.save_raised = save.raised,
                                   !.save_path = save.path,
                                   !.makedirs = IF fail.at = "makedirs" THEN @ ELSE @ + 1]
         /\ result' = [returned |-> TRUE,
                       none |-> FALSE,
                       gallery |-> storyboard,
                       status |-> "Successfully generated a 10-page children's book!",
                       warning |-> IF save.raised THEN "Warning: Could not save to folder"
                                   ELSE ""]
    /\ pc' = "Done"
    /\ UNCHANGED <<prompt, story_response, script, pages, i, storyboard,
                   images, reference_image, reader>>

----------------------------------------------------------------------------
(* read_book.py *)

\* read_book(book_folder): what it prints, and whether it raised
read_book(book_folder, disk) ==
    LET folder == IF book_folder \in DOMAIN disk THEN disk[book_folder] ELSE EmptyFolder
        book_data == folder.manifest
    IN  CASE book_data.state = "absent" ->
               [raised |-> FALSE, loaded |-> FALSE,
                error |-> "Error: Could not find book_data.json",
                prompt |-> <<>>, sections |-> <<>>]
          [] book_data.state = "partial" ->
               [raised |-> TRUE, loaded |-> FALSE, error |-> "JSONDecodeError",
                prompt |-> <<>>, sections |-> <<>>]
          [] OTHER ->
               [raised |-> FALSE, loaded |-> TRUE, error |-> "",
                prompt |-> JsonLoad(book_data.prompt),
                sections |-> [k \in 1..Len(book_data.pages) |->
                    [page_num |-> book_data.pages[k].page_number,
                     text |-> JsonLoad(book_data.pages[k].text),
                     image_file |-> book_data.pages[k].image_file,
                     image_found |-> book_data.pages[k].image_file \in folder.files]]]

\* the subfolders of generated_books, and the one sorted last by name
Books(disk) == DOMAIN disk \ {"."}
Stamp(path) == CHOOSE t \in 1..MaxClock : FolderPath(t) = path
LatestBook(disk) == CHOOSE b \in Books(disk) : \A c \in Books(disk) : Stamp(c) <= Stamp(b)

ReaderArgs == {"", ".", "no_such_folder"} \cup {FolderPath(t) : t \in 1..MaxClock}

\* the __main__ block; argv = "" stands for a missing argument
reader_main(argv, disk) ==
    IF argv = ""
    THEN IF Books(disk) # {}
         THEN LET r == read_book(LatestBook(disk), disk) IN
              [ran |-> TRUE, argv |-> argv, exit_code |-> 1, error |-> r.error,
               loaded |-> r.loaded, prompt |-> r.prompt, sections |-> r.sections]
         ELSE [NoReader EXCEPT !.ran = TRUE, !.exit_code = 1, !.error = "Usage"]
    ELSE IF argv \notin DOMAIN disk
    THEN [NoReader EXCEPT !.ran = TRUE, !.argv = argv, !.exit_code = 1,
                          !.error = "Error: Folder does not exist"]
    ELSE LET r == read_book(argv, disk) IN
         [ran |-> TRUE, argv |-> argv,
          exit_code |-> IF r.raised THEN 1 ELSE 0,
          error |-> r.error, loaded |-> r.loaded,
          prompt |-> r.prompt, sections |-> r.sections]

\* one run of the reader; it is a process of its own and sees only the disk
RunReader ==
    /\ \E argv \in ReaderArgs : reader' = reader_main(argv, fs)
    /\ UNCHANGED <<pc, prompt, story_response, script, pages, i,
                   storyboard, images, reference_image, result, calls, fs, clock>>

Next ==
    \/ Click
    \/ ValidatePrompt
    \/ GenerateScript
    \/ GenerateImage
    \/ PersistBook
    \/ RunReader

Spec == Init /\ [][Next]_vars

----------------------------------------------------------------------------
(* Properties of the story generator, stated on the text itself *)

\* the pieces of s between consecutive occurrences of sep, as pairs <<a, b>>
\* of boundary positions: the piece is s[a+1 .. b-1]
Pieces(s, sep) ==
    LET bounds == {0, Len(s) + 1} \cup {k \in 1..Len(s) : s[k] = sep}
    IN  {ab \in bounds \X bounds :
            /\ ab[1] < ab[2]
            /\ \A m \in (ab[1] + 1)..(ab[2] - 1) : s[m] # sep}
Piece(s, ab) == SubSeq(s, ab[1] + 1, ab[2] - 1)

\* s without its leading and trailing blank space
Solid(s) == {k \in 1..Len(s) : ~ IsSpace(s[k])}
Trimmed(s) ==
    IF Solid(s) = {} THEN <<>>
    ELSE SubSeq(s, CHOOSE k \in Solid(s) : \A m \in Solid(s) : k <= m,
                   CHOOSE k \in Solid(s) : \A m \in Solid(s) : m <= k)

\* the element of the set ps of pieces with exactly j - 1 elements before it
Nth(ps, j) == CHOOSE ab \in ps : Cardinality({cd \in ps : cd[1] < ab[1]}) = j - 1

\* what follows the first colon of a line
AfterFirstColon(line) ==
    LET c == CHOOSE k \in 1..Len(line) :
                 line[k] = ":" /\ \A m \in 1..(k - 1) : line[m] # ":"
    IN  SubSeq(line, c + 1, Len(line))

\* lines that, blank space aside, start with "Page"
PageLines(t) ==
    {ab \in Pieces(t, "\n") :
        LET l == Trimmed(Piece(t, ab)) IN l # <<>> /\ l[1] = "Page"}
\* ... and contain a colon
PageColonLines(t) ==
    {ab \in PageLines(t) : \E k \in 1..Len(Piece(t, ab)) : Piece(t, ab)[k] = ":"}
\* period-delimited clauses that are not blank
Clauses(t) == {ab \in Pieces(t, ".") : Trimmed(Piece(t, ab)) # <<>>}

Returned == pc = "returned"
ReturnedText == Returned /\ story_response.kind = "text"

\* C1: generate_story_script returns exactly 10 entries on every path: the
\* line parse, the period-splitting fallback (whatever the text) and the
\* error path.
C1_AlwaysTenPages == Returned => Len(script.pages) = NumPages

\* C7: with fewer than 10 "Page" lines and at least 10 period-delimited
\* clauses, the result is the first 10 non-blank trimmed clauses of the raw
\* text in order, each with a period re-appended; blank clauses do not count.
C7_FallbackFirstTenClauses ==
    LET t == story_response.content
        clauses == Clauses(t)
    IN  (/\ ReturnedText
         /\ Cardinality(PageLines(t)) < NumPages
         /\ Cardinality(clauses) >= NumPages)
        => /\ script.path = "fallback"
           /\ Len(script.pages) = NumPages
           /\ \A j \in 1..NumPages :
                script.pages[j] = Append(Trimmed(Piece(t, Nth(clauses, j))), ".")

\* C10: with at least 10 lines that start with "Page" and contain a colon, the
\* result is the trimmed text after the first colon of the first 10 such
\* lines, in encounter order, and the fallback is not used.  A line is
\* matched after its surrounding blank space is removed, as the code does.
C10_PrimaryParse ==
    LET t == story_response.content
        lines == PageColonLines(t)
    IN  (ReturnedText /\ Cardinality(lines) >= NumPages)
        => /\ script.path = "lines"
           /\ Len(script.pages) = NumPages
           /\ \A j \in 1..NumPages :
                script.pages[j] =
                    Trimmed(AfterFirstColon(Trimmed(Piece(t, Nth(lines, j)))))

\* C10 witness: the well-formed response "Page 1: w1." ... "Page 10: w10."
\* has been parsed into <<"w1.", ..., "w10.">>
C10_Witness ==
    /\ Returned
    /\ story_response = TextResponse(WellFormedText)
    /\ script.path = "lines"
    /\ script.pages = [k \in 1..NumPages |-> <<Word(k), ".">>]

----------------------------------------------------------------------------
(* Properties of the pipeline and of the reader *)

Blank(p) == \A k \in 1..Len(p) : IsSpace(p[k])
PlaceholderPages == {k \in 1..Len(images) : images[k].kind = "placeholder"}
SaveSucceeded == pc = "Done" /\ calls.save = 1 /\ ~ calls.save_raised
PageFileNames == <<"page_01.png", "page_02.png", "page_03.png", "page_04.png",
                   "page_05.png", "page_06.png", "page_07.png", "page_08.png",
                   "page_09.png", "page_10.png">>

\* C2: generate_image gets no reference for page 1 and, for every later page,
\* exactly the image returned for page 1 of the same run; the reference is
\* written once, after page 1, and never changes afterwards.
C2_StyleReference ==
    /\ \A k \in 1..Len(calls.refs) :
         IF k = 1 THEN calls.refs[k] = NoImage
         ELSE images # <<>> /\ calls.refs[k] = images[1]
    /\ calls.ref_writes = (IF images = <<>> THEN 0 ELSE 1)
    /\ reference_image = (IF images = <<>> THEN NoImage ELSE images[1])

\* C2 witness: page 1 produced the error placeholder and page 3 was generated
\* with that placeholder as reference
C2_Witness ==
    /\ Len(calls.refs) >= 3
    /\ images[1].kind = "placeholder"
    /\ calls.refs[3] = images[1]
    /\ images[2].kind = "generated"

\* C3: an empty or whitespace-only prompt ends the handler at once with no
\* gallery and a message; the story generator, the image generator and the
\* persister are never called and no folder is created.
C3_BlankPromptRejected ==
    (pc # "Idle" /\ Blank(prompt))
    => /\ pc \in {"ValidatingPrompt", "Done"}
       /\ calls.script = 0 /\ calls.image = 0 /\ calls.save = 0
       /\ calls.makedirs = 0
       /\ fs \in {CwdOnly, EarlierBook}
       /\ pc = "Done" => /\ result.returned
                         /\ result.none
                         /\ result.gallery = <<>>
                         /\ result.status = "Please enter a story prompt!"

\* C3 witness: a whitespace-only prompt has been rejected
C3_Witness ==
    /\ pc = "Done"
    /\ prompt = <<" ", "\n">>
    /\ result.returned /\ result.none

\* C4: validate, one script, images for pages 1..10 in increasing order, one
\* save; the save is called with exactly 10 page texts and 10 images.
C4_SaveAfterTenPages ==
    /\ calls.script <= 1 /\ calls.save <= 1
    /\ calls.image > 0 => calls.script = 1
    /\ \A k \in 1..Len(images) : images[k].page = k
    /\ calls.save > 0 => /\ calls.script = 1
                         /\ calls.image = Len(pages)
                         /\ Len(calls.save_pages) = NumPages
                         /\ Len(calls.save_images) = NumPages

\* C5: when save_book_to_folder raises, the handler still returns the
\* complete ordered list of 10 (image, caption) pairs and a status that
\* reports success with a warning; the exception does not propagate.
C5_SaveFailureStillReturnsTenPairs ==
    (pc = "Done" /\ calls.save = 1 /\ calls.save_raised)
    => /\ result.returned /\ ~ result.none
       /\ Len(result.gallery) = NumPages
       /\ \A k \in 1..Len(result.gallery) : result.gallery[k] = <<images[k], pages[k]>>
       /\ result.status = "Successfully generated a 10-page children's book!"
       /\ result.warning = "Warning: Could not save to folder"

\* C6: generate_image never raises; a failed request yields a 512x512
\* placeholder, the loop goes on to the next page, and every page of the
\* script ends with exactly one image.
C6_ImageFailureNeverStops ==
    /\ pc # "Raised"
    /\ Len(images) = calls.image
    /\ Cardinality(PlaceholderPages) = calls.image_failures
    /\ \A k \in 1..Len(images) :
         /\ images[k].kind \in {"generated", "placeholder"}
         /\ images[k].page = k
         /\ images[k].kind = "placeholder" =>
              images[k].w = 512 /\ images[k].h = 512
    /\ pc = "GeneratingImages" => Len(images) < Len(pages)
    /\ (pc = "Persisting" \/ calls.save > 0) => Len(images) = Len(pages)

\* C6 witness: the request for some page failed, the next page was generated,
\* and the run ended with one image per page
C6_Witness ==
    /\ pc = "Done" /\ calls.save = 1
    /\ Len(images) = NumPages
    /\ \E k \in 1..(NumPages - 1) :
         images[k].kind = "placeholder" /\ images[k + 1].kind = "generated"

\* C8: after a successful save the manifest read back holds the same prompt
\* and page texts in order, entry k has page_number k and image_file
\* page_NN.png, every referenced image exists, and there are 10 entries and 10
\* image files, as many as pages passed in.
C8_ManifestRoundTrip ==
    SaveSucceeded
    => LET book == read_book(calls.save_path, fs) IN
       /\ book.loaded
       /\ book.prompt = prompt
       /\ Len(book.sections) = Len(calls.save_pages)
       /\ Len(book.sections) = NumPages
       /\ Cardinality(fs[calls.save_path].files) = NumPages
       /\ \A k \in 1..Len(book.sections) :
            /\ book.sections[k].page_num = k
            /\ book.sections[k].text = calls.save_pages[k]
            /\ book.sections[k].image_file = PageFileNames[k]
            /\ book.sections[k].image_found

\* C9: the reader prints an error, exits nonzero and prints no page section
\* both when the folder argument does not exist and when the folder exists
\* but holds no book_data.json.
C9_ReaderFailsFast ==
    (/\ reader.ran
     /\ reader.argv # ""
     /\ \/ reader.argv \notin DOMAIN fs
        \/ fs[reader.argv].manifest.state = "absent")
    => /\ reader.exit_code # 0
       /\ reader.error # ""
       /\ reader.sections = <<>>

====
